---- MODULE Spec2Model ----
(***************************************************************************)
(* PDF QnA app (src/main.py): a Streamlit script.  Streamlit re-executes   *)
(* the whole script top to bottom on every user interaction; only          *)
(* st.session_state survives from one run to the next.  One action of this *)
(* model is one complete run of the script.                                *)
(*                                                                         *)
(* External services are modelled by their contracts:                      *)
(*   - uuid4() returns an identifier never returned before;                *)
(*   - AstraDBVectorStore.add_documents upserts by identifier, and may     *)
(*     fail after having written only part of a batch;                     *)
(*   - the retriever (MMR, k = 4) returns min(k, n) entries of the         *)
(*     collection, which ones being up to the embedding geometry;          *)
(*   - the chat model returns some string, or raises.                      *)
(***************************************************************************)
EXTENDS Integers, Sequences, FiniteSets, TLC

\* ------------------------------------------------------------------ bounds
\* Button runs (Upload & Process, Ask) in one UI session.
MaxRuns == 3

\* ------------------------------------------------------- program constants
ChunkSize == 1000
ChunkOverlap == 200
K == 4
SessionId == "abc123"

\* ------------------------------------------------------------------ inputs
\* An uploaded PDF is the sequence of its pages; a page is a run of
\* characters without separators, given by its length.
PdfPages == [A |-> <<1700, 0, 300>>, B |-> <<1001>>, E |-> <<0>>]
Pdfs == DOMAIN PdfPages
Questions == {"q1", "q2"}
Rewrites == {"s1"}
Answers == {"a1", "a2"}

VARIABLES
  vector_ready,   \* st.session_state.vector_ready
  session_keys,   \* the keys present in st.session_state
  chat_history,   \* st.session_state.chat_history: the transcript
  temp_pdf,       \* which upload the file temp.pdf holds ("" when absent)
  collection,     \* the pdf_store collection: identifier -> chunk text
  issued,         \* how many identifiers uuid4() has returned so far
  store,          \* the dict `store` built by the most recent Ask run
  uploads,        \* log of the Upload & Process runs: pdf, outcome, ids written
  asks,           \* number of Ask runs so far
  ncalls,         \* number of Contextualize/Retrieve/Generate calls so far
  run             \* what the most recent run of the script did

vars == <<vector_ready, session_keys, chat_history, temp_pdf, collection,
          issued, store, uploads, asks, ncalls, run>>

\* ----------------------------------------------------------------- helpers
Min(a, b) == IF a < b THEN a ELSE b

Range(s) == {s[i] : i \in DOMAIN s}

RECURSIVE Concat(_)
Concat(ss) == IF ss = <<>> THEN <<>> ELSE Head(ss) \o Concat(Tail(ss))

RECURSIVE Sum(_)
Sum(s) == IF s = <<>> THEN 0 ELSE Head(s) + Sum(Tail(s))

\* ---------------------------------------------------------------- ingestion
\* loader.load(): one record per page of the PDF.
LoadPages(pdf) ==
  [p \in DOMAIN PdfPages[pdf] |-> [pdf |-> pdf, page |-> p, len |-> PdfPages[pdf][p]]]

\* splitter.split_text on a separator-free text: windows of ChunkSize
\* characters, each starting ChunkOverlap before the end of the previous
\* one; the last window is the remainder.  An empty page gives no chunk.
RECURSIVE Windows(_, _, _)
Windows(pg, from, len) ==
  IF len = 0 THEN <<>>
  ELSE LET to == Min(from + ChunkSize, len)
           chunk == [pdf |-> pg.pdf, page |-> pg.page, from |-> from, to |-> to]
       IN IF to = len THEN <<chunk>>
          ELSE <<chunk>> \o Windows(pg, to - ChunkOverlap, len)

SplitText(pg) == Windows(pg, 0, pg.len)

\* texts = [chunk for page in pages for chunk in splitter.split_text(...)]
Texts(pdf) ==
  LET pages == LoadPages(pdf)
  IN Concat([p \in DOMAIN pages |-> SplitText(pages[p])])

\* docs = [Document(page_content=t) for t in texts]: the text and nothing else.
Docs(texts) == [i \in DOMAIN texts |-> texts[i]]

UuidsReused(n, used) == [i \in 1..n |-> i]

\* uuids = [str(uuid4()) for _ in range(len(docs))]
Uuids(n, used) == [i \in 1..n |-> used + i]

AddDocumentsReplacing(coll, docs, ids, n) ==
  [id \in {ids[i] : i \in 1..n} |->
     docs[CHOOSE i \in 1..n : ids[i] = id /\ \A j \in 1..n : ids[j] = id => j <= i]]

\* vector_store.add_documents(documents=docs, ids=uuids), of which the first
\* n entries reach the collection (n = Len(docs) when the call returns).
\* An entry is written under its identifier, replacing what was there.
AddDocuments(coll, docs, ids, n) ==
  LET new == {ids[i] : i \in 1..n}
  IN [id \in DOMAIN coll \cup new |->
        IF id \in new
        THEN docs[CHOOSE i \in 1..n : ids[i] = id /\ \A j \in 1..n : ids[j] = id => j <= i]
        ELSE coll[id]]

VectorReadyAfterUploadEarly(vr, outcome) == vr \/ outcome # "parse_error"

\* st.session_state.vector_ready = True runs only when add_documents returned.
VectorReadyAfterUpload(vr, outcome) == IF outcome = "ok" THEN TRUE ELSE vr

ChatEnabledAlways(vr) == TRUE

\* if st.session_state.vector_ready: the chat section is rendered.
ChatEnabled(vr) == vr

\* if 'chat_history' not in st.session_state: st.session_state.chat_history = []
ChatSectionKeys(vr, keys) == IF ChatEnabled(vr) THEN keys \cup {"chat_history"} ELSE keys

ChatSectionHistory(vr, keys, ch) ==
  IF ChatEnabled(vr) /\ "chat_history" \notin keys THEN <<>> ELSE ch

NoRun ==
  [kind |-> "start", pdf |-> "", question |-> "", outcome |-> "",
   history |-> <<>>, calls |-> <<>>, chunks |-> 0, ids |-> <<>>, written |-> 0,
   success |-> FALSE]

Init ==
  /\ vector_ready = FALSE
  /\ session_keys = {"vector_ready"}
  /\ chat_history = <<>>
  /\ temp_pdf = ""
  /\ collection = <<>>
  /\ issued = 0
  /\ store = <<>>
  /\ uploads = <<>>
  /\ asks = 0
  /\ ncalls = 0
  /\ run = NoRun

\* A run of the script in which no button fired (the page is redrawn).
Rerun ==
  /\ session_keys' = ChatSectionKeys(vector_ready, session_keys)
  /\ chat_history' = ChatSectionHistory(vector_ready, session_keys, chat_history)
  /\ run' = [NoRun EXCEPT !.kind = "rerun"]
  /\ UNCHANGED <<vector_ready, temp_pdf, collection, issued, store, uploads, asks, ncalls>>

\* The run in which "Upload & Process" fired with a file chosen.
\* outcome: "ok", "parse_error" (loader.load raises) or "store_error"
\* (add_documents raises after `written` entries reached the collection).
Upload(pdf, outcome, written) ==
  LET texts == Texts(pdf)
      docs == Docs(texts)
      m == Len(docs)
      uuids == Uuids(m, issued)
      vr == VectorReadyAfterUpload(vector_ready, outcome)
      reached == outcome # "parse_error"
  IN /\ Len(uploads) + asks < MaxRuns
     /\ \/ outcome = "ok" /\ written = m
        \/ outcome = "store_error" /\ written <= m /\ (written < m \/ m = 0)
        \/ outcome = "parse_error" /\ written = 0
     /\ temp_pdf' = pdf
     /\ issued' = IF reached THEN issued + m ELSE issued
     /\ collection' = IF reached THEN AddDocuments(collection, docs, uuids, written)
                      ELSE collection
     /\ vector_ready' = vr
     /\ uploads' = Append(uploads, [pdf |-> pdf, outcome |-> outcome,
                                    ids |-> IF reached THEN SubSeq(uuids, 1, written) ELSE <<>>])
     \* an exception ends the run before line 69; otherwise the chat section runs
     /\ session_keys' = IF outcome = "ok" THEN ChatSectionKeys(vr, session_keys)
                        ELSE session_keys
     /\ chat_history' = IF outcome = "ok" THEN ChatSectionHistory(vr, session_keys, chat_history)
                        ELSE chat_history
     /\ run' = [NoRun EXCEPT !.kind = "upload", !.pdf = pdf, !.outcome = outcome,
                             !.chunks = IF reached THEN m ELSE 0,
                             !.ids = IF reached THEN uuids ELSE <<>>,
                             !.written = written,
                             !.success = (outcome = "ok")]
     /\ UNCHANGED <<store, asks, ncalls>>

UploadOk == \E pdf \in Pdfs : Upload(pdf, "ok", Len(Texts(pdf)))

UploadParseError == \E pdf \in Pdfs : Upload(pdf, "parse_error", 0)

UploadStoreError ==
  \E pdf \in Pdfs : \E w \in 0..Len(Texts(pdf)) : Upload(pdf, "store_error", w)

\* ------------------------------------------------------ conversational chain
\* store = {}: the dict is rebuilt by every run that reaches line 129;
\* prev is the dict the previous Ask run left behind.
NewStore(prev) == <<>>

\* get_session_history(session_id)
GetSessionHistory(st, sid) ==
  IF sid \in DOMAIN st THEN st
  ELSE [k \in DOMAIN st \cup {sid} |-> IF k = sid THEN <<>> ELSE st[k]]

HumanMessage(q) == [role |-> "human", content |-> q]

AIMessage(a) == [role |-> "ai", content |-> a]

\* RunnableWithMessageHistory stores the input and the answer once the
\* wrapped chain has returned.
AddMessages(st, sid, q, a) ==
  [st EXCEPT ![sid] = @ \o <<HumanMessage(q), AIMessage(a)>>]

Call(stage, history, input, candidates, docs, output) ==
  [stage |-> stage, history |-> history, input |-> input,
   candidates |-> candidates, docs |-> docs, output |-> output, ok |-> TRUE]

\* The call that raised: it was made, and returned nothing.
Failed(c) == [c EXCEPT !.docs = {}, !.output = "", !.ok = FALSE]

ContextualizeCallsAlways(history, q, rewrite) ==
  <<Call("contextualize", history, q, {}, {}, rewrite)>>

\* create_history_aware_retriever(model, retriever, contextualize_q_prompt):
\* with no chat history the input goes to the retriever as it is; otherwise
\* prompt | llm | StrOutputParser() runs first.
ContextualizeCalls(history, q, rewrite) ==
  IF history = <<>> THEN <<>>
  ELSE <<Call("contextualize", history, q, {}, {}, rewrite)>>

RetrieverQuery(history, q, rewrite) ==
  IF ContextualizeCalls(history, q, rewrite) = <<>> THEN q
  ELSE ContextualizeCalls(history, q, rewrite)[1].output

CandidatesOfLastUpload(coll, ups) ==
  IF ups = <<>> THEN {} ELSE Range(ups[Len(ups)].ids) \cap DOMAIN coll

\* AstraDBVectorStore(collection_name="pdf_store", ...).as_retriever(...):
\* the search runs over the whole collection, without a filter.
Candidates(coll, ups) == DOMAIN coll

\* search_type="mmr", search_kwargs={"k": 4}: the possible results.
RetrieverResults(cands) ==
  {d \in SUBSET cands : Cardinality(d) = Min(K, Cardinality(cands))}

\* rag_chain = create_retrieval_chain(history_aware_retriever,
\* question_answer_chain): the calls of one invocation, in order.
RagChain(history, q, rewrite, cands, docs, answer) ==
  ContextualizeCalls(history, q, rewrite)
  \o <<Call("retrieve", <<>>, RetrieverQuery(history, q, rewrite), cands, docs, ""),
       Call("generate", history, q, {}, docs, answer)>>

\* The calls made when the f-th call raises (f = 0: none raises).
CallsMade(calls, f) ==
  IF f = 0 THEN calls ELSE SubSeq(calls, 1, f - 1) \o <<Failed(calls[f])>>

AppendTurnWithFallback(ch, q, ok, answer) ==
  IF ok THEN Append(ch, <<q, answer>>) ELSE Append(ch, <<q, "">>)

\* st.session_state.chat_history.append((user_question, response["answer"])),
\* not reached when conversational_rag_chain.invoke raised.
AppendTurn(ch, q, ok, answer) == IF ok THEN Append(ch, <<q, answer>>) ELSE ch

\* The run in which "Ask" fired with a non-empty question.
Ask(q, rewrite, docs, answer, f) ==
  LET keys == ChatSectionKeys(vector_ready, session_keys)
      ch == ChatSectionHistory(vector_ready, session_keys, chat_history)
      st0 == GetSessionHistory(NewStore(store), SessionId)
      history == st0[SessionId]
      cands == Candidates(collection, uploads)
      chain == RagChain(history, q, rewrite, cands, docs, answer)
      made == CallsMade(chain, f)
      ok == f = 0
  IN /\ ChatEnabled(vector_ready)
     /\ Len(uploads) + asks < MaxRuns
     /\ docs \in RetrieverResults(cands)
     /\ f \in 0..Len(chain)
     /\ session_keys' = keys
     /\ chat_history' = AppendTurn(ch, q, ok, answer)
     /\ store' = IF ok THEN AddMessages(st0, SessionId, q, answer) ELSE st0
     /\ asks' = asks + 1
     /\ ncalls' = ncalls + Len(made)
     /\ run' = [NoRun EXCEPT !.kind = "ask", !.question = q,
                             !.outcome = IF ok THEN "ok" ELSE "error",
                             !.history = history, !.calls = made]
     /\ UNCHANGED <<vector_ready, temp_pdf, collection, issued, uploads>>

AskOk ==
  \E q \in Questions : \E rw \in Rewrites : \E a \in Answers :
    \E docs \in RetrieverResults(Candidates(collection, uploads)) : Ask(q, rw, docs, a, 0)

AskError ==
  \E q \in Questions : \E rw \in Rewrites : \E a \in Answers :
    \E docs \in RetrieverResults(Candidates(collection, uploads)) :
      \E f \in 1..3 : Ask(q, rw, docs, a, f)

Next ==
  \/ Rerun
  \/ UploadOk
  \/ UploadParseError
  \/ UploadStoreError
  \/ AskOk
  \/ AskError

Spec == Init /\ [][Next]_vars
\* ==================================================================== claims
\* The transcript as the chat model would be given it: one human and one
\* ai message per (question, answer) pair, in order.
Messages(ch) == Concat([i \in DOMAIN ch |-> <<HumanMessage(ch[i][1]), AIMessage(ch[i][2])>>])

Front(s) == SubSeq(s, 1, Len(s) - 1)

IsPrefix(s, t) == Len(s) <= Len(t) /\ SubSeq(t, 1, Len(s)) = s

\* The turns answered before the most recent run.
PriorTranscript ==
  IF run.kind = "ask" /\ run.outcome = "ok" THEN Front(chat_history) ELSE chat_history

\* Number of windows of ChunkSize with overlap ChunkOverlap over len characters.
ExpectedChunksOfPage(len) ==
  IF len = 0 THEN 0
  ELSE IF len <= ChunkSize THEN 1
  ELSE 1 + ((len - ChunkSize) + (ChunkSize - ChunkOverlap) - 1) \div (ChunkSize - ChunkOverlap)

ExpectedChunks(pdf) ==
  Sum([p \in DOMAIN PdfPages[pdf] |-> ExpectedChunksOfPage(PdfPages[pdf][p])])

UploadStep == Len(uploads') = Len(uploads) + 1

AskStep == asks' = asks + 1

\* C1: the history handed to the chain by an Ask holds the (question,
\* answer) pairs of all earlier answered questions of the session, in order.
C1_HistoryCarried ==
  run.kind = "ask" => run.history = Messages(PriorTranscript)

\* C2: a completed Upload & Process generates as many identifiers as the
\* PDF's pages split into chunks, all distinct and none already stored, and
\* adds exactly one entry per chunk to the collection.
C2_UploadAddsOnePerChunk ==
  [][(UploadStep /\ run'.outcome = "ok") =>
       LET m == ExpectedChunks(run'.pdf)
           ids == run'.ids
           added == DOMAIN collection' \ DOMAIN collection
       IN /\ Len(Texts(run'.pdf)) = m
          /\ Len(ids) = m
          /\ Cardinality(Range(ids)) = m
          /\ Range(ids) \cap DOMAIN collection = {}
          /\ added = Range(ids)
          /\ Cardinality(added) = m
          /\ \A i \in 1..m : collection'[ids[i]] = Texts(run'.pdf)[i]]_vars

C2_Witness ==
  /\ run.kind = "upload" /\ run.outcome = "ok"
  /\ run.chunks = 3
  /\ Len(uploads) = 2 /\ uploads[1].outcome = "ok" /\ uploads[1].ids # <<>>

\* C3: the collection only grows: its size is the sum of what each upload
\* wrote (the chunk count, for a completed upload), every entry of a
\* completed upload is still stored with its text, and no two uploads share
\* an identifier; the same PDF processed twice is stored twice.
C3_AppendOnly ==
  /\ Cardinality(DOMAIN collection) = Sum([i \in DOMAIN uploads |-> Len(uploads[i].ids)])
  /\ \A i \in DOMAIN uploads :
       uploads[i].outcome = "ok" =>
         /\ Len(uploads[i].ids) = ExpectedChunks(uploads[i].pdf)
         /\ \A j \in DOMAIN uploads[i].ids :
              /\ uploads[i].ids[j] \in DOMAIN collection
              /\ collection[uploads[i].ids[j]] = Texts(uploads[i].pdf)[j]
  /\ \A i, j \in DOMAIN uploads :
       i # j => Range(uploads[i].ids) \cap Range(uploads[j].ids) = {}

C3_Witness ==
  /\ Len(uploads) = 2
  /\ uploads[1].outcome = "ok" /\ uploads[2].outcome = "ok"
  /\ uploads[1].pdf = "A" /\ uploads[2].pdf = "A"
  /\ Cardinality(DOMAIN collection) = 2 * ExpectedChunks("A")
  /\ \A j \in 1..ExpectedChunks("A") :
       collection[uploads[1].ids[j]] = collection[uploads[2].ids[j]]

\* The history kept under the session identifier (empty when none is kept).
SessionHistory(st) == IF SessionId \in DOMAIN st THEN st[SessionId] ELSE <<>>

\* C4: every run leaves the chat history it found, both the transcript and
\* the history kept under the session identifier, as a prefix of the one it
\* leaves; an answered Ask appends exactly its (question, answer) pair at
\* the end of each, and no other run changes either.
C4_HistoryGrowsAtEnd ==
  [][/\ IsPrefix(chat_history, chat_history')
     /\ IsPrefix(SessionHistory(store), SessionHistory(store'))
     /\ IF AskStep /\ run'.outcome = "ok"
        THEN LET q == run'.question
                 a == run'.calls[Len(run'.calls)].output
             IN /\ chat_history' = Append(chat_history, <<q, a>>)
                /\ SessionHistory(store') =
                     SessionHistory(store) \o <<HumanMessage(q), AIMessage(a)>>
        ELSE /\ chat_history' = chat_history
             /\ SessionHistory(store') = SessionHistory(store)]_vars

\* C5: an Ask made when the session has earlier turns calls Contextualize
\* with those turns and the raw question, then Retrieve with the rewritten
\* question, then Generate.
C5_ContextualizeThenRetrieve ==
  (run.kind = "ask" /\ PriorTranscript # <<>>) =>
    /\ Len(run.calls) >= 1
    /\ run.calls[1].stage = "contextualize"
    /\ run.calls[1].history = Messages(PriorTranscript)
    /\ run.calls[1].input = run.question
    /\ Len(run.calls) >= 2 =>
         /\ run.calls[2].stage = "retrieve"
         /\ run.calls[2].input = run.calls[1].output
    /\ Len(run.calls) >= 3 => run.calls[3].stage = "generate"

\* C6: an Ask whose chain receives an empty chat history makes no
\* Contextualize call, and Retrieve is given the user's question as typed.
C6_EmptyHistorySkipsRewrite ==
  (run.kind = "ask" /\ run.history = <<>>) =>
    /\ \A i \in DOMAIN run.calls : run.calls[i].stage # "contextualize"
    /\ run.calls[1].stage = "retrieve"
    /\ run.calls[1].input = run.question

C6_Witness ==
  /\ run.kind = "ask" /\ run.outcome = "ok"
  /\ chat_history = <<<<run.question, run.calls[2].output>>>>
  /\ run.calls[1].ok /\ run.calls[1].docs # {}

\* C7: an Ask in which a stage call raises leaves the transcript and the
\* ingestion flag as they were, stores no turn in the session history, and
\* produces no answer.
C7_FailedAskChangesNothing ==
  [][(AskStep /\ run'.outcome = "error") =>
       /\ chat_history' = chat_history
       /\ vector_ready' = vector_ready
       /\ store'[SessionId] = run'.history
       /\ ~run'.calls[Len(run'.calls)].ok
       /\ \A i \in DOMAIN run'.calls : run'.calls[i].stage # "generate" \/ run'.calls[i].output = ""]_vars

C7_Witness ==
  /\ run.kind = "ask" /\ run.outcome = "error"
  /\ run.calls[Len(run.calls)].stage = "generate"
  /\ chat_history # <<>>

\* C8: an Upload & Process that fails leaves the ingestion flag as it was,
\* shows no success message, is not attempted again, and every entry stored
\* before it is still stored with its text.
C8_FailedUploadKeepsState ==
  [][(UploadStep /\ run'.outcome # "ok") =>
       /\ vector_ready' = vector_ready
       /\ ~run'.success
       /\ uploads'[Len(uploads')].outcome = run'.outcome
       /\ \A id \in DOMAIN collection :
            id \in DOMAIN collection' /\ collection'[id] = collection[id]]_vars

C8_Witness ==
  /\ run.kind = "upload" /\ run.outcome = "store_error" /\ run.written > 0
  /\ ~vector_ready
  /\ Len(uploads) = 2 /\ uploads[1].ids # <<>>

\* C9: the ingestion flag starts false; while it is false the transcript is
\* empty and no stage call has been made; only a completed Upload & Process
\* sets it, and no run resets it.
C9_AskOnlyAfterIngestion ==
  /\ vector_ready = FALSE
  /\ [](~vector_ready => (chat_history = <<>> /\ ncalls = 0 /\ asks = 0))
  /\ [][/\ vector_ready => vector_ready'
        /\ (~vector_ready /\ vector_ready') =>
             (UploadStep /\ run'.kind = "upload" /\ run'.outcome = "ok")]_vars

C9_Witness ==
  /\ vector_ready /\ asks > 0
  /\ run.kind = "upload" /\ run.outcome # "ok"

\* C10: Retrieve searches the whole collection and returns at most K of its
\* entries; every chunk of every completed upload, not only of the latest,
\* is among the candidates.
C10_RetrievalOverWholeCollection ==
  \A c \in DOMAIN run.calls :
    run.calls[c].stage = "retrieve" =>
      /\ run.calls[c].candidates = DOMAIN collection
      /\ Cardinality(run.calls[c].docs) <= K
      /\ run.calls[c].docs \subseteq DOMAIN collection
      /\ \A i \in DOMAIN uploads :
           uploads[i].outcome = "ok" =>
             \A j \in 1..Len(Texts(uploads[i].pdf)) :
               /\ uploads[i].ids[j] \in run.calls[c].candidates
               /\ collection[uploads[i].ids[j]] = Texts(uploads[i].pdf)[j]

C10_Witness ==
  /\ run.kind = "ask" /\ run.outcome = "ok"
  /\ Len(uploads) = 2
  /\ uploads[1].pdf = "A" /\ uploads[1].outcome = "ok"
  /\ uploads[2].pdf = "B" /\ uploads[2].outcome = "ok"
  /\ Cardinality(run.calls[1].candidates) > K
  /\ Cardinality(run.calls[1].docs) = K
  /\ uploads[1].ids[1] \in run.calls[1].docs
====
